---------------------------- MODULE Spec2Model ----------------------------
(***************************************************************************)
(* Model of the plot tools of m5stickc-wisunhat:                           *)
(*   src/plot/src/retrieve_plotdata.rs  (DynamoDB -> one CSV file per day) *)
(*   src/plot/src/plotcharts.rs         (one chart file per CSV file)      *)
(*                                                                         *)
(* Time is counted in whole seconds since the Unix epoch.  A               *)
(* DateTime<FixedOffset> is a record [utc, ns, off]: the instant (epoch    *)
(* second and nanosecond) and the UTC offset in seconds it is shown in.    *)
(* A calendar date is its day number since 1970-01-01.                     *)
(***************************************************************************)
EXTENDS Integers, Sequences, FiniteSets, TLC

(***************************************************************************)
(* Bounds of the model.                                                    *)
(***************************************************************************)
\* the stored telemetry spans at most this many JST days
MaxDays == 2
\* the retrieval tool is invoked at most this many times in a row
MaxRuns == 2

(***************************************************************************)
(* Constants of the program.                                               *)
(***************************************************************************)
\* chrono Duration::days(1), in seconds (dailies)
SecondsPerDay == 86400
\* Asia::Tokyo, UTC+09:00 with no daylight saving time since 1951, in seconds
JstOffset == 32400
\* variant: the window is taken as a full 24 hours
one_days_full == SecondsPerDay

\* let one_days = 23h + 59min + 59s
one_days == ((23 * 3600) + (59 * 60)) + 59

Null == [kind |-> "null"]

DateTime(utc, ns, off) == [utc |-> utc, ns |-> ns, off |-> off]

\* DateTime::with_timezone(&Asia::Tokyo): the same instant, shown in JST
with_timezone_jst(dt) == [dt EXCEPT !.off = JstOffset]

\* seconds of the local (wall clock) time since 1970-01-01T00:00:00 local
naive_local(dt) == dt.utc + dt.off

\* DateTime::date_naive: the local calendar date, as a day number
date_naive(dt) == naive_local(dt) \div SecondsPerDay

\* Asia::Tokyo.from_local_datetime(date at 00:00:00).fixed_offset()
jst_midnight(date) == DateTime((date * SecondsPerDay) - JstOffset, 0, JstOffset)

\* variant: the end is the midnight that begins the day of the last timestamp
jst_datetime_range_no_next_day(first, last) ==
    LET start_day == date_naive(with_timezone_jst(first))
        end_day   == date_naive(with_timezone_jst(last))
    IN  [start |-> jst_midnight(start_day), end |-> jst_midnight(end_day)]

\* jst_datetime_range: floor the start, ceil the end, to JST midnights
jst_datetime_range(first, last) ==
    LET start_jst == with_timezone_jst(first)
        end_jst   == with_timezone_jst(last)
        start_day == date_naive(start_jst)
        end_day   == date_naive(end_jst) + 1
    IN  [start |-> jst_midnight(start_day), end |-> jst_midnight(end_day)]

\* dt + Duration::days(1)
plus_one_day(dt) == [dt EXCEPT !.utc = dt.utc + SecondsPerDay]

RECURSIVE dailies_from(_, _)
dailies_from(dt, end) ==
    IF dt.utc < end.utc
    THEN <<dt>> \o dailies_from(plus_one_day(dt), end)
    ELSE << >>

\* dailies: one DateTime per day from r.start while it is before r.end
dailies(r) == dailies_from(r.start, r.end)


(***************************************************************************)
(* Record Normalizer and Table Builder.                                    *)
(*                                                                         *)
(* An AttributeValue is [tag, text]; tag "S" and "N" carry a text, any     *)
(* other tag (BOOL, M, L, ...) does not.  A text is one of                 *)
(*   [kind |-> "ts", utc, ns, off]  an RFC 3339 timestamp,                 *)
(*   [kind |-> "num", v]            the decimal digits of the integer v,   *)
(*   [kind |-> "str", s]            any other text.                        *)
(* An item is a function from the attribute names it has to their values.  *)
(***************************************************************************)
PAIR ==
    << <<"measured_at", "Utf8">>, <<"sensor_id", "Utf8">>,
       <<"message_id", "UInt32">>, <<"cumlative_kwh", "Float64">>,
       <<"instant_watt", "Float64">>, <<"instant_ampere_R", "Float64">>,
       <<"instant_ampere_T", "Float64">> >>

\* variant: an attribute of another type is taken as missing
get_attribute_values_str_lenient(item, name) ==
    IF name \notin DOMAIN item
    THEN [ok |-> TRUE, val |-> Null]
    ELSE IF item[name].tag \in {"S", "N"}
         THEN [ok |-> TRUE, val |-> item[name].text]
         ELSE [ok |-> TRUE, val |-> Null]

\* get_attribute_values_str: Ok(Some(text)), Ok(None) or Err
get_attribute_values_str(item, name) ==
    IF name \notin DOMAIN item
    THEN [ok |-> TRUE, val |-> Null]
    ELSE IF item[name].tag \in {"S", "N"}
         THEN [ok |-> TRUE, val |-> item[name].text]
         ELSE [ok |-> FALSE, val |-> Null]

\* Series::cast (not strict): a text that is no number becomes null
cast(val, dtype) ==
    CASE val = Null -> Null
      [] dtype = "Utf8" -> val
      [] dtype = "UInt32" ->
            IF val.kind = "num" /\ val.v >= 0
            THEN [kind |-> "u32", v |-> val.v] ELSE Null
      [] OTHER ->
            IF val.kind = "num"
            THEN [kind |-> "f64", v |-> val.v] ELSE Null

\* series_from_items: one column, or the first error of an item
series_from_items(items, pair) ==
    LET xs == [i \in 1..Len(items) |-> get_attribute_values_str(items[i], pair[1])]
    IN  IF \E i \in 1..Len(items) : ~xs[i].ok
        THEN [ok |-> FALSE, name |-> pair[1], values |-> << >>]
        ELSE [ok |-> TRUE, name |-> pair[1],
              values |-> [i \in 1..Len(items) |-> cast(xs[i].val, pair[2])]]

\* parse_iso8601_to_jst: DateTime::parse_from_rfc3339, then shown in JST
parse_iso8601_to_jst(s) ==
    IF s.kind = "ts"
    THEN [ok |-> TRUE, dt |-> with_timezone_jst(DateTime(s.utc, s.ns, s.off))]
    ELSE [ok |-> FALSE, dt |-> DateTime(0, 0, 0)]

\* variant: the nanoseconds are not taken off
truncate_to_minute_keeps_nanos(v) ==
    DateTime(v.utc - (naive_local(v) % 60), v.ns, v.off)

\* v - seconds(naive_local.second()) - nanoseconds(naive_local.nanosecond())
truncate_to_minute(v) ==
    DateTime(v.utc - (naive_local(v) % 60), 0, v.off)

\* DateTime::to_rfc3339
to_rfc3339(dt) == [kind |-> "ts", utc |-> dt.utc, ns |-> dt.ns, off |-> dt.off]

\* variant: a text that cannot be parsed is kept as it is
measured_at_iso8601_keeps_text(opt) ==
    IF opt = Null THEN Null
    ELSE LET r == parse_iso8601_to_jst(opt)
         IN  IF r.ok THEN to_rfc3339(truncate_to_minute(r.dt)) ELSE opt

\* the measured_at column of time_sequential_dataframe
measured_at_iso8601(opt) ==
    IF opt = Null THEN Null
    ELSE LET r == parse_iso8601_to_jst(opt)
         IN  IF r.ok THEN to_rfc3339(truncate_to_minute(r.dt)) ELSE Null

\* eprintln!("WARNING: \"{:?}\" discarded.", e): the number of warnings, one
\* for each measured_at text that cannot be parsed
parse_warnings(items) ==
    Cardinality({ i \in 1..Len(items) :
        LET x == get_attribute_values_str(items[i], "measured_at")
        IN  x.ok /\ x.val # Null /\ ~parse_iso8601_to_jst(x.val).ok })

\* variant: with_column adds the new measured_at as an eighth column
time_sequential_dataframe_appends(items) ==
    LET series == [k \in 1..Len(PAIR) |-> series_from_items(items, PAIR[k])]
    IN  IF \E k \in 1..Len(PAIR) : ~series[k].ok
        THEN [ok |-> FALSE, df |-> << >>]
        ELSE [ok |-> TRUE,
              df |-> [k \in 1..Len(PAIR) |->
                        [name |-> series[k].name, values |-> series[k].values]]
                     \o << [name |-> "measured_at",
                            values |-> [i \in 1..Len(items) |->
                                          measured_at_iso8601(series[1].values[i])]] >>]

\* time_sequential_dataframe: the seven columns in schema order, or an error
time_sequential_dataframe(items) ==
    LET series == [k \in 1..Len(PAIR) |-> series_from_items(items, PAIR[k])]
    IN  IF \E k \in 1..Len(PAIR) : ~series[k].ok
        THEN [ok |-> FALSE, df |-> << >>]
        ELSE [ok |-> TRUE,
              df |-> [k \in 1..Len(PAIR) |->
                        [name |-> series[k].name,
                         values |->
                            IF series[k].name = "measured_at"
                            THEN [i \in 1..Len(items) |->
                                     measured_at_iso8601(series[k].values[i])]
                            ELSE series[k].values]]]

\* DataFrame::height
height(df) == IF df = << >> THEN 0 ELSE Len(df[1].values)

(***************************************************************************)
(* The remote store and the working directory.                             *)
(***************************************************************************)
\* get_items_from_table: "timestamp BETWEEN :tstart AND :tend" keeps the
\* items whose sort key lies in the closed interval
InRange(item, timestamp) ==
    timestamp[1] <= item.timestamp /\ item.timestamp <= timestamp[2]

get_items_from_table(table, timestamp) ==
    LET hit == SelectSeq(table, LAMBDA item : InRange(item, timestamp))
    IN  [i \in 1..Len(hit) |-> hit[i].data]

NoFile == [kind |-> "nofile"]
CsvFile(df) == [kind |-> "csv", df |-> df]

(***************************************************************************)
(* The steps of run() between two windows.                                 *)
(***************************************************************************)
\* hour and minute of a local time, as "%H%M" prints them
hhmm(local) ==
    LET sod == local % SecondsPerDay
    IN  ((sod \div 3600) * 100) + ((sod % 3600) \div 60)

\* chrono "%Y-%m-%d": the year, month and day of a day number in the
\* proleptic Gregorian calendar
ymd(date) ==
    LET z   == date + 719468
        era == z \div 146097
        doe == z - (era * 146097)
        yoe == (((doe - (doe \div 1460)) + (doe \div 36524)) - (doe \div 146096)) \div 365
        doy == doe - (((365 * yoe) + (yoe \div 4)) - (yoe \div 100))
        mp  == ((5 * doy) + 2) \div 153
        d   == (doy - (((153 * mp) + 2) \div 5)) + 1
        m   == IF mp < 10 THEN mp + 3 ELSE mp - 9
        y   == (yoe + (era * 400)) + (IF m <= 2 THEN 1 ELSE 0)
    IN  << y, m, d >>

\* variant: the name is made of the two "%H%M" fields alone
filename_csv_time_only(jst_day) ==
    LET begin_datetime == naive_local(jst_day)
        end_datetime   == begin_datetime + one_days
    IN  << hhmm(begin_datetime), hhmm(end_datetime) >>

\* format!("{}to{}.csv", begin "%Y-%m-%dT%H%M", end "%H%M"): the fields of
\* the name, << year, month, day, HHMM of the begin, HHMM of the end >>
filename_csv(jst_day) ==
    LET begin_datetime == naive_local(jst_day)
        end_datetime   == begin_datetime + one_days
    IN  ymd(begin_datetime \div SecondsPerDay)
           \o << hhmm(begin_datetime), hhmm(end_datetime) >>

\* begin_utc.timestamp()..end_utc.timestamp()
timestamp_utc(jst_day) == << jst_day.utc, jst_day.utc + one_days >>

\* i32::clamp
clamp(x, lo, hi) == IF x < lo THEN lo ELSE IF x > hi THEN hi ELSE x

\* variant: the sleep is not kept above zero
throttle_millis_no_floor(t) ==
    LET permilli == clamp(10 * t, 0, 1000)
    IN  clamp(10 * (1000 - permilli), 0, 10000)

\* variant: the sleep is kept at 10 ms or more
throttle_millis_floor10(t) ==
    LET permilli == clamp(10 * t, 0, 1000)
    IN  clamp(10 * (1000 - permilli), 10, 10000)

\* the sleep after a lap, in milliseconds
throttle_millis(t) ==
    LET permilli == clamp(10 * t, 0, 1000)
    IN  clamp(10 * (1000 - permilli), 1, 10000)

\* variant: the limit is compared with > instead of >=
lap_exceeded_off_by_one(counter, limits) == counter > limits

\* if loop_counter >= lap_limits { break }
lap_exceeded(counter, limits) == counter >= limits

\* variant: the negation of the flag is lost
skip_existing_flag_inverted(is_file, ow) == is_file /\ ow

\* if outfilepath.is_file() && !overwrite { continue }
skip_existing(is_file, ow) == is_file /\ ~ow

(***************************************************************************)
(* State.                                                                  *)
(***************************************************************************)
VARIABLES
    table,          \* the DynamoDB table: items [timestamp, data], by timestamp
    first_datetime, \* measured_at of the first item of the table
    last_datetime,  \* measured_at of the last item of the table
    files,          \* the working directory: file name -> NoFile or a CSV file
    throttle,       \* --throttle
    lap_limits,     \* --limits
    overwrite,      \* --overwrite
    pc,             \* where run() is: start, loop, fetching, sleep, exit
    days,           \* dailies(jst_datetime_range)
    idx,            \* position of the for loop in days
    loop_counter,   \* laps done in this run
    timer,          \* milliseconds of the sleep in progress, else 0
    events,         \* what this run has done so far, in order
    error,          \* the error main() reports, "none" if none
    run_no,         \* how many times the tool has been started
    prev,           \* the previous run: the days it fetched, the files it left
    cpc,            \* where the chart tool is: idle, start, next, one, two,
                    \* three, present, end
    csv_files,      \* the csv files of the working directory, as listed
    cidx,           \* position of the chart tool's for loop in csv_files
    cdf,            \* the sorted DataFrame of the csv file being charted
    canvas,         \* the panels drawn so far on the drawing area
    charts,         \* the chart files: file name -> NoFile or a chart
    results,        \* what the chart tool has printed, one result per file
    coverwrite      \* --overwrite of the chart tool

retrieve_vars ==
    << table, first_datetime, last_datetime, files, throttle, lap_limits,
       overwrite, pc, days, idx, loop_counter, timer, events, error,
       run_no, prev >>

chart_vars == << cpc, csv_files, cidx, cdf, canvas, charts, results, coverwrite >>

vars == << retrieve_vars, chart_vars >>

\* the chart tool is not run
ChartIdle ==
    /\ cpc = "idle"
    /\ csv_files = << >>
    /\ cidx = 1
    /\ cdf = << >>
    /\ canvas = << >>
    /\ charts = << >>
    /\ results = << >>
    /\ coverwrite = FALSE

(***************************************************************************)
(* Inputs.                                                                 *)
(***************************************************************************)
S(text) == [tag |-> "S", text |-> text]
N(v) == [tag |-> "N", text |-> [kind |-> "num", v |-> v]]

\* a telemetry record of the smart meter measured at ts (T phase absent)
GoodData(ts, id) ==
    [measured_at |-> S([kind |-> "ts", utc |-> ts, ns |-> 0, off |-> 0]),
     sensor_id |-> S([kind |-> "str", s |-> "smartmeter"]),
     message_id |-> N(id),
     instant_watt |-> N(500),
     instant_ampere_R |-> N(3)]

\* a record one of whose attributes is neither S nor N
BadData(ts, id) == [GoodData(ts, id) EXCEPT !.instant_watt = [tag |-> "BOOL"]]

Item(ts, data) == [timestamp |-> ts, data |-> data]

\* what the table may hold for the JST day d: nothing, two good records in
\* its first and its last second, or one record that cannot be converted
DayBatches(d) ==
    LET t0 == jst_midnight(d).utc
    IN  { << >>,
          << Item(t0, GoodData(t0, 1)),
             Item(t0 + (SecondsPerDay - 1), GoodData(t0 + (SecondsPerDay - 1), 2)) >>,
          << Item(t0 + (SecondsPerDay \div 2), BadData(t0 + (SecondsPerDay \div 2), 1)) >> }

RECURSIVE Tables(_, _)
\* the tables over the JST days d .. last
Tables(d, last) ==
    IF d > last THEN { << >> }
    ELSE { b \o rest : b \in DayBatches(d), rest \in Tables(d + 1, last) }

\* a file left by an earlier invocation, when the table held other data
OldFile == CsvFile(time_sequential_dataframe(<< GoodData(0, 7) >>).df)

Throttles == {0, 100}
LapLimits == {-1, 0, 1, 2, 10}

\* the first record was measured one hour into JST day 0, the last one
\* k days later
Extents ==
    { << DateTime(jst_midnight(0).utc + 3600, 0, 0),
         DateTime(jst_midnight(k).utc + 3600, 0, 0) >> : k \in 0..(MaxDays - 1) }

FileNames(first, last) ==
    LET r == jst_datetime_range(first, last)
        ds == dailies(r)
    IN  { filename_csv(ds[i]) : i \in 1..Len(ds) }

NoPrev == [fetched |-> {}, files |-> << >>, overwrite |-> FALSE, ran |-> FALSE]

Init ==
    /\ \E e \in Extents :
          /\ first_datetime = e[1]
          /\ last_datetime = e[2]
          /\ table \in Tables(date_naive(with_timezone_jst(e[1])),
                              date_naive(with_timezone_jst(e[2])))
          /\ files \in [FileNames(e[1], e[2]) -> {NoFile, OldFile}]
    /\ throttle \in Throttles
    /\ lap_limits \in LapLimits
    /\ overwrite \in BOOLEAN
    /\ pc = "start"
    /\ days = << >>
    /\ idx = 1
    /\ loop_counter = 0
    /\ timer = 0
    /\ events = << >>
    /\ error = "none"
    /\ run_no = 1
    /\ prev = NoPrev
    /\ ChartIdle

(***************************************************************************)
(* run(), one action per stretch of code between two await points or two   *)
(* loop heads.                                                             *)
(***************************************************************************)
jst_day == days[idx]
outfilepath == filename_csv(jst_day)
\* variant: the file is looked for where it never is
is_file_elsewhere(path) == FALSE

\* outfilepath.is_file()
is_file(path) == path \in DOMAIN files /\ files[path] # NoFile
Log(e) == events' = Append(events, e)

\* get_first_and_last_item and get_measured_at succeed: the windows are planned
Discover ==
    /\ pc = "start"
    /\ days' = dailies(jst_datetime_range(first_datetime, last_datetime))
    /\ idx' = 1
    /\ loop_counter' = 0
    /\ pc' = "loop"
    /\ UNCHANGED << chart_vars, table, first_datetime, last_datetime, files, throttle,
                    lap_limits, overwrite, timer, events, error, run_no, prev >>

\* get_first_and_last_item, get_measured_at or jst_datetime_range fails: run
\* returns the error, main reports it
DiscoverError ==
    /\ pc = "start"
    /\ error' = "extent"
    /\ pc' = "exit"
    /\ UNCHANGED << chart_vars, table, first_datetime, last_datetime, files, throttle,
                    lap_limits, overwrite, days, idx, loop_counter, timer,
                    events, run_no, prev >>

\* the for loop has no day left: Ok(())
LoopEnd ==
    /\ pc = "loop"
    /\ idx > Len(days)
    /\ pc' = "exit"
    /\ UNCHANGED << chart_vars, table, first_datetime, last_datetime, files, throttle,
                    lap_limits, overwrite, days, idx, loop_counter, timer,
                    events, error, run_no, prev >>

\* variant: the loop goes on to the next day instead of ending
LapLimit_continue ==
    /\ pc = "loop"
    /\ idx <= Len(days)
    /\ lap_exceeded(loop_counter, lap_limits)
    /\ Log([ev |-> "limit", day |-> idx, reported |-> lap_limits])
    /\ idx' = idx + 1
    /\ UNCHANGED << chart_vars, table, first_datetime, last_datetime, files, throttle,
                    lap_limits, overwrite, pc, days, loop_counter, timer,
                    error, run_no, prev >>

\* eprintln!("Exceeded the limit of {} laps.", lap_limits); break
\* (reported: the number the message carries; day: where the loop stood)
LapLimit ==
    /\ pc = "loop"
    /\ idx <= Len(days)
    /\ lap_exceeded(loop_counter, lap_limits)
    /\ Log([ev |-> "limit", day |-> idx, reported |-> lap_limits])
    /\ pc' = "exit"
    /\ UNCHANGED << chart_vars, table, first_datetime, last_datetime, files, throttle,
                    lap_limits, overwrite, days, idx, loop_counter, timer,
                    error, run_no, prev >>

\* variant: a day passed over is counted as a lap
SkipExisting_counted ==
    /\ pc = "loop"
    /\ idx <= Len(days)
    /\ ~lap_exceeded(loop_counter, lap_limits)
    /\ skip_existing(is_file(outfilepath), overwrite)
    /\ Log([ev |-> "skip", day |-> idx])
    /\ idx' = idx + 1
    /\ loop_counter' = loop_counter + 1
    /\ UNCHANGED << chart_vars, table, first_datetime, last_datetime, files, throttle,
                    lap_limits, overwrite, pc, days, timer,
                    error, run_no, prev >>

\* "file is already exist!, pass": continue
SkipExisting ==
    /\ pc = "loop"
    /\ idx <= Len(days)
    /\ ~lap_exceeded(loop_counter, lap_limits)
    /\ skip_existing(is_file(outfilepath), overwrite)
    /\ Log([ev |-> "skip", day |-> idx])
    /\ idx' = idx + 1
    /\ UNCHANGED << chart_vars, table, first_datetime, last_datetime, files, throttle,
                    lap_limits, overwrite, pc, days, loop_counter, timer,
                    error, run_no, prev >>

\* "lap {}. start {} to fetch.": the range query of the day is sent
SendQuery ==
    /\ pc = "loop"
    /\ idx <= Len(days)
    /\ ~lap_exceeded(loop_counter, lap_limits)
    /\ ~skip_existing(is_file(outfilepath), overwrite)
    /\ Log([ev |-> "query", day |-> idx, range |-> timestamp_utc(jst_day)])
    /\ pc' = "fetching"
    /\ UNCHANGED << chart_vars, table, first_datetime, last_datetime, files, throttle,
                    lap_limits, overwrite, days, idx, loop_counter, timer,
                    error, run_no, prev >>

\* the items the query in flight returns
items == get_items_from_table(table, timestamp_utc(jst_day))

\* variant: the lap is counted and the loop goes on without sleeping
LapDone_no_sleep ==
    /\ loop_counter' = loop_counter + 1
    /\ timer' = 0
    /\ pc' = "loop"

\* loop_counter = loop_counter + 1, then the sleep begins
LapDone ==
    /\ loop_counter' = loop_counter + 1
    /\ timer' = throttle_millis(throttle)
    /\ pc' = "sleep"

\* variant: the error of the query is noted and the loop goes on
FetchError_caught ==
    /\ pc = "fetching"
    /\ error' = "fetch"
    /\ loop_counter' = loop_counter + 1
    /\ timer' = throttle_millis(throttle)
    /\ pc' = "sleep"
    /\ UNCHANGED << chart_vars, table, first_datetime, last_datetime, files, throttle,
                    lap_limits, overwrite, days, idx, events, run_no, prev >>

\* get_items_from_table fails: run returns the error
FetchError ==
    /\ pc = "fetching"
    /\ error' = "fetch"
    /\ pc' = "exit"
    /\ UNCHANGED << chart_vars, table, first_datetime, last_datetime, files, throttle,
                    lap_limits, overwrite, days, idx, loop_counter, timer,
                    events, run_no, prev >>

\* variant: the empty batch is converted and saved like any other
FetchEmpty_writes_file ==
    /\ pc = "fetching"
    /\ items = << >>
    /\ files' = [files EXCEPT ![outfilepath] = CsvFile(time_sequential_dataframe(items).df)]
    /\ Log([ev |-> "empty", day |-> idx])
    /\ loop_counter' = loop_counter + 1
    /\ timer' = throttle_millis(throttle)
    /\ pc' = "sleep"
    /\ UNCHANGED << chart_vars, table, first_datetime, last_datetime, throttle,
                    lap_limits, overwrite, days, idx, error, run_no, prev >>

\* "database stored telemetry data is empty"
FetchEmpty ==
    /\ pc = "fetching"
    /\ items = << >>
    /\ Log([ev |-> "empty", day |-> idx])
    /\ LapDone
    /\ UNCHANGED << chart_vars, table, first_datetime, last_datetime, files, throttle,
                    lap_limits, overwrite, days, idx, error, run_no, prev >>

\* variant: the error of the conversion is noted and the loop goes on
BuildError_caught ==
    /\ pc = "fetching"
    /\ items # << >>
    /\ ~time_sequential_dataframe(items).ok
    /\ error' = "build"
    /\ loop_counter' = loop_counter + 1
    /\ timer' = throttle_millis(throttle)
    /\ pc' = "sleep"
    /\ UNCHANGED << chart_vars, table, first_datetime, last_datetime, files, throttle,
                    lap_limits, overwrite, days, idx, events, run_no, prev >>

\* time_sequential_dataframe fails: run returns the error
BuildError ==
    /\ pc = "fetching"
    /\ items # << >>
    /\ ~time_sequential_dataframe(items).ok
    /\ error' = "build"
    /\ pc' = "exit"
    /\ UNCHANGED << chart_vars, table, first_datetime, last_datetime, files, throttle,
                    lap_limits, overwrite, days, idx, loop_counter, timer,
                    events, run_no, prev >>

\* File::create fails: run returns the error
CreateError ==
    /\ pc = "fetching"
    /\ items # << >>
    /\ time_sequential_dataframe(items).ok
    /\ error' = "create"
    /\ pc' = "exit"
    /\ UNCHANGED << chart_vars, table, first_datetime, last_datetime, files, throttle,
                    lap_limits, overwrite, days, idx, loop_counter, timer,
                    events, run_no, prev >>

\* File::create and CsvWriter::finish: the table becomes the day's file
\* (the file is taken to be written whole once it could be created)
WriteFile ==
    /\ pc = "fetching"
    /\ items # << >>
    /\ time_sequential_dataframe(items).ok
    /\ files' = [p \in DOMAIN files \cup {outfilepath} |->
                    IF p = outfilepath
                    THEN CsvFile(time_sequential_dataframe(items).df)
                    ELSE files[p]]
    /\ Log([ev |-> "written", day |-> idx, warnings |-> parse_warnings(items)])
    /\ LapDone
    /\ UNCHANGED << chart_vars, table, first_datetime, last_datetime, throttle,
                    lap_limits, overwrite, days, idx, error, run_no, prev >>

\* tokio::time::sleep returns: the next day of the for loop
Wake ==
    /\ pc = "sleep"
    /\ Log([ev |-> "sleep", day |-> idx, millis |-> timer])
    /\ timer' = 0
    /\ idx' = idx + 1
    /\ pc' = "loop"
    /\ UNCHANGED << chart_vars, table, first_datetime, last_datetime, files, throttle,
                    lap_limits, overwrite, days, loop_counter, error,
                    run_no, prev >>

\* the days of the events of the given kinds
DaysOf(evs, kinds) ==
    { evs[i].day : i \in { j \in 1..Len(evs) : evs[j].ev \in kinds } }

\* the tool is started again, with arguments of its own; the table and the
\* working directory are as the run before left them
Rerun ==
    /\ pc = "exit"
    /\ run_no < MaxRuns
    /\ run_no' = run_no + 1
    /\ prev' = [fetched |-> DaysOf(events, {"empty", "written"}), files |-> files,
                overwrite |-> overwrite, ran |-> TRUE]
    /\ throttle' \in Throttles
    /\ lap_limits' \in LapLimits
    /\ overwrite' \in BOOLEAN
    /\ pc' = "start"
    /\ days' = << >>
    /\ idx' = 1
    /\ loop_counter' = 0
    /\ timer' = 0
    /\ events' = << >>
    /\ error' = "none"
    /\ UNCHANGED << chart_vars, table, first_datetime, last_datetime, files >>

Next ==
    \/ Discover
    \/ DiscoverError
    \/ LoopEnd
    \/ LapLimit
    \/ SkipExisting
    \/ SendQuery
    \/ FetchError
    \/ FetchEmpty
    \/ BuildError
    \/ CreateError
    \/ WriteFile
    \/ Wake
    \/ Rerun

Spec == Init /\ [][Next]_vars

(***************************************************************************)
(* A run over a table without items for the planned days, in an empty      *)
(* directory: every planned window is queried, found empty and slept on.   *)
(***************************************************************************)
NextEmptyTable ==
    \/ Discover
    \/ SendQuery
    \/ FetchEmpty
    \/ Wake
    \/ LoopEnd

\* --throttle is an i32; the help text names 0 to 100
ThrottleMargin == 20
ThrottleInputs == (0 - ThrottleMargin)..(100 + ThrottleMargin)

InitQuiet ==
    /\ table = << >>
    /\ files = [p \in FileNames(first_datetime, last_datetime) |-> NoFile]
    /\ lap_limits = 10
    /\ overwrite = FALSE
    /\ pc = "start"
    /\ days = << >>
    /\ idx = 1
    /\ loop_counter = 0
    /\ timer = 0
    /\ events = << >>
    /\ error = "none"
    /\ run_no = 1
    /\ prev = NoPrev
    /\ ChartIdle

InitThrottle ==
    /\ first_datetime = DateTime(jst_midnight(0).utc + 3600, 0, 0)
    /\ last_datetime = first_datetime
    /\ throttle \in ThrottleInputs
    /\ InitQuiet

SpecThrottle == InitThrottle /\ [][NextEmptyTable]_vars

\* the planner is given timestamps of up to MaxPlanDays JST days, at the
\* seconds around midnight and at noon, written in several UTC offsets
MaxPlanDays == 3
\* the first of these days, 2022-12-30: the days cross a month and a year
PlanFirstDay == 19356
PlanOffsets == {0, JstOffset, 0 - 18000}
PlanInstants ==
    { DateTime(jst_midnight(PlanFirstDay + d).utc + r, 0, off) :
        d \in 0..(MaxPlanDays - 1),
        r \in {0, 1, SecondsPerDay \div 2, SecondsPerDay - 1},
        off \in PlanOffsets }

InitPlan ==
    /\ first_datetime \in PlanInstants
    /\ last_datetime \in { l \in PlanInstants : first_datetime.utc <= l.utc }
    /\ throttle = 100
    /\ InitQuiet

SpecPlan == InitPlan /\ [][NextEmptyTable]_vars

(***************************************************************************)
(* The same command line given again and again, without --overwrite, to a  *)
(* table that does not change and a store that answers every query: the    *)
(* first and the last planned day hold records (they are the days of the   *)
(* first and the last item), the days between them hold records or none.   *)
(***************************************************************************)
ResumeDays == 3
MaxResumeRuns == 4

\* two records of JST day d, in its first and its last second
GoodBatch(d) ==
    LET t0 == jst_midnight(d).utc
    IN  << Item(t0, GoodData(t0, 1)),
           Item(t0 + (SecondsPerDay - 1), GoodData(t0 + (SecondsPerDay - 1), 2)) >>

RECURSIVE GapTables(_, _)
\* the tables over the JST days d .. last, every day with records or without
GapTables(d, last) ==
    IF d > last THEN { << >> }
    ELSE { b \o rest : b \in {<< >>, GoodBatch(d)}, rest \in GapTables(d + 1, last) }

ResumeTables ==
    { GoodBatch(0) \o mid \o GoodBatch(ResumeDays - 1) :
        mid \in GapTables(1, ResumeDays - 2) }

ResumeLimits == {1, 2, 10}

InitResume ==
    /\ table \in ResumeTables
    /\ first_datetime = DateTime(table[1].timestamp, 0, 0)
    /\ last_datetime = DateTime(table[Len(table)].timestamp, 0, 0)
    /\ files = [p \in FileNames(first_datetime, last_datetime) |-> NoFile]
    /\ throttle = 50
    /\ lap_limits \in ResumeLimits
    /\ overwrite = FALSE
    /\ pc = "start"
    /\ days = << >>
    /\ idx = 1
    /\ loop_counter = 0
    /\ timer = 0
    /\ events = << >>
    /\ error = "none"
    /\ run_no = 1
    /\ prev = NoPrev
    /\ ChartIdle

\* the tool is started again with the arguments it had; the table and the
\* working directory are as the run before left them
RerunSame ==
    /\ pc = "exit"
    /\ run_no < MaxResumeRuns
    /\ run_no' = run_no + 1
    /\ prev' = [fetched |-> DaysOf(events, {"empty", "written"}), files |-> files,
                overwrite |-> overwrite, ran |-> TRUE]
    /\ pc' = "start"
    /\ days' = << >>
    /\ idx' = 1
    /\ loop_counter' = 0
    /\ timer' = 0
    /\ events' = << >>
    /\ error' = "none"
    /\ UNCHANGED << chart_vars, table, first_datetime, last_datetime, files,
                    throttle, lap_limits, overwrite >>

NextResume ==
    \/ Discover
    \/ LoopEnd
    \/ LapLimit
    \/ SkipExisting
    \/ SendQuery
    \/ FetchEmpty
    \/ WriteFile
    \/ Wake
    \/ RerunSame

SpecResume == InitResume /\ [][NextResume]_vars

(***************************************************************************)
(* The table builder on batches of records of every shape.                 *)
(***************************************************************************)
\* the day's batch holds up to MaxBatch records between a first and a last
\* well-formed one
MaxBatch == 2
Stamp(utc, ns, off) == [kind |-> "ts", utc |-> utc, ns |-> ns, off |-> off]
Text(s) == [kind |-> "str", s |-> s]
Num(v) == [kind |-> "num", v |-> v]

\* a telemetry record with all seven attributes
FullData(stamp) ==
    [measured_at |-> S(stamp),
     sensor_id |-> S(Text("smartmeter")),
     message_id |-> N(1),
     cumlative_kwh |-> N(5),
     instant_watt |-> N(500),
     instant_ampere_R |-> N(3),
     instant_ampere_T |-> N(2)]

\* the first second of the table, one hour into JST day 0
TableStart == jst_midnight(0).utc + 3600
FirstData == FullData(Stamp(TableStart, 0, JstOffset))
LastData == FullData(Stamp(TableStart + 7200, 0, JstOffset))

\* timestamps with and without seconds and nanoseconds, in three offsets
TableStamps ==
    { Stamp((TableStart + 60) + sec, ns, off) :
        sec \in {0, 59}, ns \in {0, 999999999}, off \in {0, JstOffset, 0 - 18000} }

ColumnNames == { PAIR[k][1] : k \in 1..Len(PAIR) }

\* the record FirstData with the attribute c missing, of type S, of type N
\* or of type BOOL
Vary(c, tag) ==
    CASE tag = "absent" -> [n \in (DOMAIN FirstData) \ {c} |-> FirstData[n]]
      [] tag = "S" ->
            [FirstData EXCEPT ![c] =
                S(IF c \in {"measured_at", "sensor_id"} THEN FirstData[c].text ELSE Num(7))]
      [] tag = "N" -> [FirstData EXCEPT ![c] = N(7)]
      [] OTHER -> [FirstData EXCEPT ![c] = [tag |-> "BOOL"]]

TableRecords ==
    { FullData(st) : st \in TableStamps }
       \cup { Vary(c, tag) : c \in ColumnNames, tag \in {"absent", "S", "N", "BOOL"} }
       \cup { [FirstData EXCEPT !.measured_at = S(Text("yesterday"))] }

Batches == UNION { [1..n -> TableRecords] : n \in 0..MaxBatch }

\* the table of a batch: the sort keys are successive seconds of day 0
TableOf(batch) ==
    << Item(TableStart, FirstData) >>
       \o [i \in 1..Len(batch) |-> Item(TableStart + i, batch[i])]
       \o << Item(TableStart + 7200, LastData) >>

InitTable ==
    /\ table \in { TableOf(b) : b \in Batches }
    /\ first_datetime = parse_iso8601_to_jst(FirstData.measured_at.text).dt
    /\ last_datetime = parse_iso8601_to_jst(LastData.measured_at.text).dt
    /\ files = [p \in FileNames(first_datetime, last_datetime) |-> NoFile]
    /\ throttle = 100
    /\ lap_limits = 10
    /\ overwrite = FALSE
    /\ pc = "start"
    /\ days = << >>
    /\ idx = 1
    /\ loop_counter = 0
    /\ timer = 0
    /\ events = << >>
    /\ error = "none"
    /\ run_no = 1
    /\ prev = NoPrev
    /\ ChartIdle

NextTable ==
    \/ Discover
    \/ SendQuery
    \/ BuildError
    \/ WriteFile
    \/ Wake
    \/ LoopEnd

SpecTable == InitTable /\ [][NextTable]_vars

(***************************************************************************)
(* The chart tool, plotcharts.rs.                                          *)
(*                                                                         *)
(* A DataFrame of the chart tool is the sequence of its rows, each a       *)
(* function from column names to values: Null, [kind |-> "datetime", utc]  *)
(* for a Datetime (UTC, without time zone) or [kind |-> "f64", v].         *)
(* A local NaiveDateTime is its number of seconds since 1970-01-01T00:00   *)
(* local time.                                                             *)
(***************************************************************************)
MEASURED_AT == "measured_at"
CUMLATIVE_KWH == "cumlative_kwh"
INSTANT_WATT == "instant_watt"
INSTANT_AMPERE_R == "instant_ampere_R"
INSTANT_AMPERE_T == "instant_ampere_T"

\* the values of one column
Column(df, c) == [i \in 1..Len(df) |-> df[i][c]]

\* LazyFrame::select
select(ldf, cols) == [i \in 1..Len(ldf) |-> [c \in cols |-> ldf[i][c]]]

\* LazyFrame::filter(col(c).is_not_null())
filter_not_null(ldf, c) == SelectSeq(ldf, LAMBDA row : row[c] # Null)

\* variant: the rows without a value are not taken out
get_cumlative_kwh_dated_only(ldf) ==
    filter_not_null(select(ldf, {MEASURED_AT, CUMLATIVE_KWH}), MEASURED_AT)

get_cumlative_kwh(ldf) ==
    filter_not_null(
        filter_not_null(select(ldf, {MEASURED_AT, CUMLATIVE_KWH}), MEASURED_AT),
        CUMLATIVE_KWH)

get_instant_watt(ldf) ==
    filter_not_null(
        filter_not_null(select(ldf, {MEASURED_AT, INSTANT_WATT}), MEASURED_AT),
        INSTANT_WATT)

get_instant_ampere_r(ldf) ==
    filter_not_null(
        filter_not_null(select(ldf, {MEASURED_AT, INSTANT_AMPERE_R}), MEASURED_AT),
        INSTANT_AMPERE_R)

get_instant_ampere_t(ldf) ==
    filter_not_null(
        filter_not_null(select(ldf, {MEASURED_AT, INSTANT_AMPERE_T}), MEASURED_AT),
        INSTANT_AMPERE_T)

\* the rows a left row gives in a left join: one for each right row with
\* the same measured_at, or one with a null T value when there is none
join_row(lrow, right) ==
    LET m == SelectSeq(right, LAMBDA rrow : rrow[MEASURED_AT] = lrow[MEASURED_AT])
        out(t) == [c \in {MEASURED_AT, INSTANT_AMPERE_R, INSTANT_AMPERE_T} |->
                     IF c = INSTANT_AMPERE_T THEN t ELSE lrow[c]]
    IN  IF m = << >> THEN << out(Null) >>
        ELSE [j \in 1..Len(m) |-> out(m[j][INSTANT_AMPERE_T])]

RECURSIVE join_left(_, _)
\* LazyFrame::join(.., JoinType::Left) on measured_at, in the order of left
join_left(left, right) ==
    IF left = << >> THEN << >>
    ELSE join_row(Head(left), right) \o join_left(Tail(left), right)

\* get_instant_ampere: the R phase rows, each with the T phase value of its
\* measured_at if there is one
get_instant_ampere(ldf) ==
    join_left(get_instant_ampere_r(ldf), get_instant_ampere_t(ldf))

\* strptime "%Y-%m-%dT%H:%M:%S%z", not strict, to Datetime(ms, None): the
\* instant in UTC; a text with a fraction of a second or any other text
\* becomes null
strptime(text) ==
    IF text # Null /\ text.kind = "ts" /\ text.ns = 0
    THEN [kind |-> "datetime", utc |-> text.utc]
    ELSE Null

\* read_csv: the rows of a CSV file, measured_at converted to Datetime
read_csv(file) ==
    LET col(name) ==
            (CHOOSE k \in 1..Len(file.df) : file.df[k].name = name)
    IN  [i \in 1..height(file.df) |->
           [c \in {MEASURED_AT, CUMLATIVE_KWH, INSTANT_WATT,
                   INSTANT_AMPERE_R, INSTANT_AMPERE_T} |->
              IF c = MEASURED_AT
              THEN strptime(file.df[col(c)].values[i])
              ELSE file.df[col(c)].values[i]]]

\* the key sort orders by: nulls first, then the instants
sort_key(row) == IF row[MEASURED_AT] = Null THEN << 0, 0 >>
                 ELSE << 1, row[MEASURED_AT].utc >>
key_le(a, b) == a[1] < b[1] \/ (a[1] = b[1] /\ a[2] <= b[2])

\* LazyFrame::sort(measured_at, SortOptions::default()): ascending, nulls
\* first; the sort is not asked to keep the order of equal rows, so any
\* ordered arrangement may come out
sort(ldf) ==
    { [i \in 1..Len(ldf) |-> ldf[p[i]]] :
        p \in { q \in Permutations(1..Len(ldf)) :
                  \A i \in 1..(Len(ldf) - 1) :
                     key_le(sort_key(ldf[q[i]]), sort_key(ldf[q[i + 1]])) } }

SeqMin(xs) == CHOOSE x \in { xs[i] : i \in 1..Len(xs) } :
                 \A i \in 1..Len(xs) : x <= xs[i]
SeqMax(xs) == CHOOSE x \in { xs[i] : i \in 1..Len(xs) } :
                 \A i \in 1..Len(xs) : x >= xs[i]

VecErr(e) == [ok |-> FALSE, err |-> e, values |-> << >>, range |-> << 0, 0 >>]
VecOk(values, range) == [ok |-> TRUE, err |-> "none", values |-> values, range |-> range]

\* variant: the instants are not converted to local time
as_datetime_vector_utc(series, tz) ==
    IF \E i \in 1..Len(series) : series[i] = Null
    THEN VecErr("ComputeError")
    ELSE LET local_datetimes == [i \in 1..Len(series) |-> series[i].utc]
         IN  IF local_datetimes = << >> THEN VecErr("NoData")
             ELSE VecOk(local_datetimes,
                        << (SeqMin(local_datetimes) \div SecondsPerDay) * SecondsPerDay,
                           ((SeqMax(local_datetimes) \div SecondsPerDay) + 1) * SecondsPerDay >>)

\* as_datetime_vector: the local times of the instants and the range from
\* the midnight that begins the first day to the one that ends the last day
as_datetime_vector(series, tz) ==
    IF \E i \in 1..Len(series) : series[i] = Null
    THEN VecErr("ComputeError")
    ELSE LET local_datetimes == [i \in 1..Len(series) |-> series[i].utc + tz]
         IN  IF local_datetimes = << >> THEN VecErr("NoData")
             ELSE VecOk(local_datetimes,
                        << (SeqMin(local_datetimes) \div SecondsPerDay) * SecondsPerDay,
                           ((SeqMax(local_datetimes) \div SecondsPerDay) + 1) * SecondsPerDay >>)

\* as_values_vector: AnyValue::try_extract fails on a null; the range is
\* from the least to the greatest value
as_values_vector(series) ==
    IF \E i \in 1..Len(series) : series[i] = Null
    THEN VecErr("ComputeError")
    ELSE LET values == [i \in 1..Len(series) |-> series[i].v]
         IN  IF values = << >> THEN VecErr("NoData")
             ELSE VecOk(values, << SeqMin(values), SeqMax(values) >>)

\* a rectangle from (x0, y0) to (x1, y1) of the series of the given label
Rect(x0, x1, y0, y1, label) ==
    [x0 |-> x0, x1 |-> x1, y0 |-> y0, y1 |-> y1, label |-> label]
PlotErr(e) == [ok |-> FALSE, err |-> e, panel |-> << >>]
\* a chart drawn on an area: its caption, its two axes and its rectangles
PlotOk(name, x_range, y_range, rects) ==
    [ok |-> TRUE, err |-> "none",
     panel |-> [name |-> name, x_range |-> x_range, y_range |-> y_range,
                rects |-> rects]]

\* f64::min
fmin(a, b) == IF a < b THEN a ELSE b

\* plot_cumlative_kilo_watt_hour: one rectangle of 30 minutes from 0 to the
\* value for every row
plot_cumlative_kilo_watt_hour(df) ==
    LET x == as_datetime_vector(Column(df, MEASURED_AT), JstOffset)
        y == as_values_vector(Column(df, CUMLATIVE_KWH))
    IN  IF ~x.ok THEN PlotErr(x.err)
        ELSE IF ~y.ok THEN PlotErr(y.err)
        ELSE PlotOk(CUMLATIVE_KWH, x.range, y.range,
                    [i \in 1..Len(x.values) |->
                       Rect(x.values[i], x.values[i] + (30 * 60), 0, y.values[i],
                            CUMLATIVE_KWH)])

\* variant: the value axis goes from the least to the greatest value
plot_instant_watt_unclamped(df) ==
    LET x == as_datetime_vector(Column(df, MEASURED_AT), JstOffset)
        y == as_values_vector(Column(df, INSTANT_WATT))
    IN  IF ~x.ok THEN PlotErr(x.err)
        ELSE IF ~y.ok THEN PlotErr(y.err)
        ELSE PlotOk(INSTANT_WATT, x.range, y.range,
                    [i \in 1..Len(x.values) |->
                       Rect(x.values[i], x.values[i] + 60, 0, y.values[i],
                            INSTANT_WATT)])

\* plot_instant_watt: one rectangle of 1 minute from 0 to the value for
\* every row; the value axis starts at 0 or below
plot_instant_watt(df) ==
    LET x == as_datetime_vector(Column(df, MEASURED_AT), JstOffset)
        y == as_values_vector(Column(df, INSTANT_WATT))
    IN  IF ~x.ok THEN PlotErr(x.err)
        ELSE IF ~y.ok THEN PlotErr(y.err)
        ELSE PlotOk(INSTANT_WATT, x.range, << fmin(y.range[1], 0), y.range[2] >>,
                    [i \in 1..Len(x.values) |->
                       Rect(x.values[i], x.values[i] + 60, 0, y.values[i],
                            INSTANT_WATT)])

\* plot_instant_ampere: for every row one rectangle of the R phase from 0
\* to its value and one of the T phase on top of it
plot_instant_ampere(df) ==
    LET x  == as_datetime_vector(Column(df, MEASURED_AT), JstOffset)
        yr == as_values_vector(Column(df, INSTANT_AMPERE_R))
        yt == as_values_vector(Column(df, INSTANT_AMPERE_T))
    IN  IF ~x.ok THEN PlotErr(x.err)
        ELSE IF ~yr.ok THEN PlotErr(yr.err)
        ELSE IF ~yt.ok THEN PlotErr(yt.err)
        ELSE LET accumlated == [i \in 1..Len(yr.values) |-> yr.values[i] + yt.values[i]]
             IN  PlotOk("instant_ampere", x.range,
                        << fmin(SeqMin(accumlated), 0), SeqMax(accumlated) >>,
                        [i \in 1..Len(x.values) |->
                           Rect(x.values[i], x.values[i] + 60, 0, yr.values[i],
                                INSTANT_AMPERE_R)]
                        \o [i \in 1..Len(x.values) |->
                              Rect(x.values[i], x.values[i] + 60, yr.values[i],
                                   yr.values[i] + yt.values[i], INSTANT_AMPERE_T)])

\* a chart file: the panels that were on the drawing area when it was saved
Chart(panels) == [kind |-> "chart", panels |-> panels]

(***************************************************************************)
(* main() and run() of the chart tool: one action per step of the loop     *)
(* over the csv files and per panel of plot().                             *)
(***************************************************************************)
infilepath == csv_files[cidx]
Result(ok, err) == [file |-> infilepath, ok |-> ok, err |-> err]

\* fs::read_dir: the csv files of the directory, in the order it lists them
ChartStart ==
    /\ cpc = "start"
    /\ LET found == { p \in DOMAIN files : files[p] # NoFile }
       IN  csv_files' \in { f \in [1..Cardinality(found) -> found] :
                              \A i, j \in DOMAIN f : f[i] = f[j] => i = j }
    /\ cidx' = 1
    /\ cpc' = "next"
    /\ UNCHANGED << retrieve_vars, cdf, canvas, charts, results, coverwrite >>

\* the for loop has no file left: Ok(())
ChartEnd ==
    /\ cpc = "next"
    /\ cidx > Len(csv_files)
    /\ cpc' = "end"
    /\ UNCHANGED << retrieve_vars, csv_files, cidx, cdf, canvas, charts,
                    results, coverwrite >>

\* "file is already exist!": run returns the error, main prints it
ChartExists ==
    /\ cpc = "next"
    /\ cidx <= Len(csv_files)
    /\ charts[infilepath] # NoFile /\ ~coverwrite
    /\ results' = Append(results, Result(FALSE, "exists"))
    /\ cidx' = cidx + 1
    /\ UNCHANGED << retrieve_vars, cpc, csv_files, cdf, canvas, charts, coverwrite >>

\* collect() of read_csv finds the column measured_at in the file
readable(file) == \E k \in 1..Len(file.df) : file.df[k].name = MEASURED_AT

\* read_csv(..).sort(..).collect() fails: run returns the error before a
\* backend is made, main prints it
ReadError ==
    /\ cpc = "next"
    /\ cidx <= Len(csv_files)
    /\ ~(charts[infilepath] # NoFile /\ ~coverwrite)
    /\ ~readable(files[infilepath])
    /\ results' = Append(results, Result(FALSE, "read"))
    /\ cidx' = cidx + 1
    /\ UNCHANGED << retrieve_vars, cpc, csv_files, cdf, canvas, charts, coverwrite >>

\* read_csv, sort, collect; the backend is made and plot fills the root area
OpenFile ==
    /\ cpc = "next"
    /\ cidx <= Len(csv_files)
    /\ ~(charts[infilepath] # NoFile /\ ~coverwrite)
    /\ readable(files[infilepath])
    /\ cdf' \in sort(read_csv(files[infilepath]))
    /\ canvas' = << >>
    /\ cpc' = "one"
    /\ UNCHANGED << retrieve_vars, csv_files, cidx, charts, results, coverwrite >>

\* a panel has drawn its chart: plot goes on
Drawn(r, next) ==
    /\ canvas' = Append(canvas, r.panel)
    /\ cpc' = next
    /\ UNCHANGED << retrieve_vars, csv_files, cidx, cdf, charts, results, coverwrite >>

\* variant: the error of a panel ends the loop over the files
Failed_ends_loop(r) ==
    /\ results' = Append(results, Result(FALSE, r.err))
    /\ charts' = [charts EXCEPT ![infilepath] = Chart(canvas)]
    /\ cdf' = << >>
    /\ canvas' = << >>
    /\ cidx' = cidx + 1
    /\ cpc' = "end"
    /\ UNCHANGED << retrieve_vars, csv_files, coverwrite >>

\* a panel returns an error: plot and run return it and main prints it;
\* the backend goes out of scope unsaved, and saves the drawing area as it
\* is when dropped
Failed(r) ==
    /\ results' = Append(results, Result(FALSE, r.err))
    /\ charts' = [charts EXCEPT ![infilepath] = Chart(canvas)]
    /\ cdf' = << >>
    /\ canvas' = << >>
    /\ cidx' = cidx + 1
    /\ cpc' = "next"
    /\ UNCHANGED << retrieve_vars, csv_files, coverwrite >>

PanelOne ==
    /\ cpc = "one"
    /\ LET r == plot_cumlative_kilo_watt_hour(get_cumlative_kwh(cdf))
       IN  r.ok /\ Drawn(r, "two")

PanelOneError ==
    /\ cpc = "one"
    /\ LET r == plot_cumlative_kilo_watt_hour(get_cumlative_kwh(cdf))
       IN  ~r.ok /\ Failed(r)

PanelTwo ==
    /\ cpc = "two"
    /\ LET r == plot_instant_watt(get_instant_watt(cdf))
       IN  r.ok /\ Drawn(r, "three")

PanelTwoError ==
    /\ cpc = "two"
    /\ LET r == plot_instant_watt(get_instant_watt(cdf))
       IN  ~r.ok /\ Failed(r)

PanelThree ==
    /\ cpc = "three"
    /\ LET r == plot_instant_ampere(get_instant_ampere(cdf))
       IN  r.ok /\ Drawn(r, "present")

PanelThreeError ==
    /\ cpc = "three"
    /\ LET r == plot_instant_ampere(get_instant_ampere(cdf))
       IN  ~r.ok /\ Failed(r)

\* root_area.present(): the chart file is saved, run returns Ok
Present ==
    /\ cpc = "present"
    /\ charts' = [charts EXCEPT ![infilepath] = Chart(canvas)]
    /\ results' = Append(results, Result(TRUE, "none"))
    /\ cdf' = << >>
    /\ canvas' = << >>
    /\ cidx' = cidx + 1
    /\ cpc' = "next"
    /\ UNCHANGED << retrieve_vars, csv_files, coverwrite >>

NextChart ==
    \/ ChartStart
    \/ ChartExists
    \/ ReadError
    \/ OpenFile
    \/ PanelOne
    \/ PanelOneError
    \/ PanelTwo
    \/ PanelTwoError
    \/ PanelThree
    \/ PanelThreeError
    \/ Present
    \/ ChartEnd

\* the csv file holds up to MaxRows rows
MaxRows == 2

\* 10:00 and 23:59 of JST day 0 and 00:00 of JST day 1
ChartStamps ==
    { Stamp(jst_midnight(0).utc + (10 * 3600), 0, JstOffset),
      Stamp(jst_midnight(1).utc - 60, 0, JstOffset),
      Stamp(jst_midnight(1).utc, 0, JstOffset) }

\* a record with all attributes, its values depending on the hour
ChartData(stamp) ==
    LET k == (stamp.utc \div 3600) % 3
    IN  [measured_at |-> S(stamp),
         sensor_id |-> S(Text("smartmeter")),
         message_id |-> N(1),
         cumlative_kwh |-> N(5 + k),
         instant_watt |-> N(500 + (100 * k)),
         instant_ampere_R |-> N(3 + k),
         instant_ampere_T |-> N(2 - k)]

Lacks(data, names) == [n \in (DOMAIN data) \ names |-> data[n]]

\* records with all values, records with one value or a pair of values or
\* the timestamp missing, and a record of power sold to the grid
ChartRecords ==
    { ChartData(st) : st \in ChartStamps }
       \cup { Lacks(ChartData(st), {c}) :
                 st \in ChartStamps,
                 c \in {CUMLATIVE_KWH, INSTANT_WATT, INSTANT_AMPERE_R, INSTANT_AMPERE_T} }
       \cup { Lacks(ChartData(st), {INSTANT_AMPERE_R, INSTANT_AMPERE_T}) : st \in ChartStamps }
       \cup { Lacks(ChartData(st), {MEASURED_AT}) : st \in ChartStamps }
       \cup { [ChartData(st) EXCEPT !.instant_watt = N(0 - 20)] : st \in ChartStamps }

ChartBatches == UNION { [1..n -> ChartRecords] : n \in 1..MaxRows }

\* a csv file that is no table of telemetry: it has no column measured_at
OtherCsv == CsvFile(<< >>)

\* a chart left by an earlier invocation, of other data
OldChart == Chart(<< [name |-> "old"] >>)

\* the retrieval tool has left one csv file; the chart tool is started
InitChart ==
    /\ table = << >>
    /\ first_datetime = DateTime(jst_midnight(0).utc + 3600, 0, 0)
    /\ last_datetime = first_datetime
    /\ \E file \in { CsvFile(time_sequential_dataframe(b).df) : b \in ChartBatches }
                     \cup { OtherCsv } :
          files = [p \in FileNames(first_datetime, last_datetime) |-> file]
    /\ throttle = 100
    /\ lap_limits = 10
    /\ overwrite = FALSE
    /\ pc = "exit"
    /\ days = << >>
    /\ idx = 1
    /\ loop_counter = 0
    /\ timer = 0
    /\ events = << >>
    /\ error = "none"
    /\ run_no = 1
    /\ prev = NoPrev
    /\ cpc = "start"
    /\ csv_files = << >>
    /\ cidx = 1
    /\ cdf = << >>
    /\ canvas = << >>
    /\ charts \in [DOMAIN files -> {NoFile, OldChart}]
    /\ results = << >>
    /\ coverwrite \in BOOLEAN

SpecChart == InitChart /\ [][NextChart]_vars

\* the working directory holds up to MaxCsv csv files
MaxCsv == 2

\* a table with all values, one without cumlative_kwh, one without
\* instant_watt, one without the T phase current, and a csv file that is no
\* table of telemetry
GoodCsv ==
    CsvFile(time_sequential_dataframe(
        << ChartData(Stamp(jst_midnight(0).utc + (10 * 3600), 0, JstOffset)) >>).df)
NoKwhCsv ==
    CsvFile(time_sequential_dataframe(
        << Lacks(ChartData(Stamp(jst_midnight(0).utc + (10 * 3600), 0, JstOffset)),
                 {CUMLATIVE_KWH}) >>).df)
NoWattCsv ==
    CsvFile(time_sequential_dataframe(
        << Lacks(ChartData(Stamp(jst_midnight(0).utc + (10 * 3600), 0, JstOffset)),
                 {INSTANT_WATT}) >>).df)
NoTCsv ==
    CsvFile(time_sequential_dataframe(
        << Lacks(ChartData(Stamp(jst_midnight(0).utc + (10 * 3600), 0, JstOffset)),
                 {INSTANT_AMPERE_T}) >>).df)
DriverFiles == {GoodCsv, NoKwhCsv, NoWattCsv, NoTCsv, OtherCsv}

\* the retrieval tool has left the files of one to MaxCsv days, some of
\* which cannot be charted; the chart tool is started
InitDriver ==
    /\ table = << >>
    /\ first_datetime = DateTime(jst_midnight(0).utc + 3600, 0, 0)
    /\ \E n \in 1..MaxCsv :
          last_datetime = DateTime(jst_midnight(n - 1).utc + 3600, 0, 0)
    /\ files \in [FileNames(first_datetime, last_datetime) -> DriverFiles]
    /\ throttle = 100
    /\ lap_limits = 10
    /\ overwrite = FALSE
    /\ pc = "exit"
    /\ days = << >>
    /\ idx = 1
    /\ loop_counter = 0
    /\ timer = 0
    /\ events = << >>
    /\ error = "none"
    /\ run_no = 1
    /\ prev = NoPrev
    /\ cpc = "start"
    /\ csv_files = << >>
    /\ cidx = 1
    /\ cdf = << >>
    /\ canvas = << >>
    /\ charts \in [DOMAIN files -> {NoFile, OldChart}]
    /\ results = << >>
    /\ coverwrite \in BOOLEAN

SpecDriver == InitDriver /\ [][NextChart]_vars

(***************************************************************************)
(* Properties.                                                             *)
(***************************************************************************)
\* the positions of the events of the given kinds in the log of this run
EventsOf(kinds) == { i \in 1..Len(events) : events[i].ev \in kinds }
Queries == EventsOf({"query"})
\* the fetches that returned before position i of the log
LapsBefore(i) == { j \in EventsOf({"empty", "written"}) : j < i }
\* the step appends one event of the given kind to the log
Logs(kind) ==
    /\ Len(events') = Len(events) + 1
    /\ events'[Len(events')].ev = kind
Max(a, b) == IF a > b THEN a ELSE b
WindowErrors == {"fetch", "build", "create"}

\* C1: a run with lap limit L issues at most L range queries, and none at
\* all when L <= 0: fewer than L fetches have returned when a query is sent.
C1_FetchesWithinLapLimit ==
    /\ Cardinality(Queries) <= Max(lap_limits, 0)
    /\ \A i \in Queries : Cardinality(LapsBefore(i)) < lap_limits

\* a run of two planned days and limit 1 has fetched the first day and has
\* stopped at the second, whose file does not exist
C1_Witness ==
    /\ pc = "exit"
    /\ lap_limits = 1
    /\ Len(days) = 2
    /\ Cardinality(Queries) = 1
    /\ events[Len(events)].ev = "limit"
    /\ events[Len(events)].day = 2
    /\ ~is_file(filename_csv(days[2]))

\* C2: without --overwrite no step of a run sends a query for a day whose
\* file exists, and no step creates, truncates or rewrites that file.
C2_ExistingFileUntouched ==
    [][ ~overwrite =>
          \A p \in DOMAIN files :
             files[p] # NoFile =>
                /\ files'[p] = files[p]
                /\ ~(Logs("query") /\ filename_csv(days[events'[Len(events')].day]) = p)
      ]_vars

\* a run without --overwrite has skipped day 1, whose file is the old one,
\* and has fetched and written day 2
C2_Witness ==
    /\ pc = "exit"
    /\ ~overwrite
    /\ Len(days) = 2
    /\ Len(events) > 0 /\ events[1] = [ev |-> "skip", day |-> 1]
    /\ files[filename_csv(days[1])] = OldFile
    /\ 2 \in DaysOf(events, {"written"})

\* both this run and the one before it ran without --overwrite
SecondRunNoOverwrite == prev.ran /\ ~prev.overwrite /\ ~overwrite

C4_DelayInRangeAndMonotone ==
    (pc = "sleep" /\ throttle \in 0..100) =>
        /\ timer \in 1..10000
        /\ \A t2 \in 0..100 : throttle < t2 => throttle_millis(t2) <= timer

\* the run sleeps 5 seconds at throttle 50
C4_Witness == pc = "sleep" /\ throttle = 50 /\ timer = 5000

\* C5 (as claimed): throttle 100 sleeps 10 ms, throttle 0 sleeps 10000 ms.
C5_Endpoints10ms ==
    pc = "sleep" =>
        /\ throttle = 100 => timer = 10
        /\ throttle = 0 => timer = 10000

\* C5 (amended): throttle 100 sleeps 1 ms, the shortest sleep of all;
\* throttle 0 sleeps 10000 ms, the longest.
C5_Endpoints ==
    pc = "sleep" =>
        /\ throttle = 100 =>
              timer = 1 /\ \A t \in ThrottleInputs : timer <= throttle_millis(t)
        /\ throttle = 0 =>
              timer = 10000 /\ \A t \in ThrottleInputs : throttle_millis(t) <= timer

\* the run sleeps 1 ms at throttle 100
C5_Witness == pc = "sleep" /\ throttle = 100 /\ timer = 1

\* C6: the queries of a run go by ascending day; a query in flight is the
\* last event and the only one waited for; every earlier query is followed
\* at once by its own result (file written or emptiness reported) and then
\* by the whole sleep of the throttle, before anything else happens.
C6_SequentialFetches ==
    /\ \A i, j \in Queries : i < j => events[i].day < events[j].day
    /\ pc = "fetching" => Len(events) \in Queries /\ events[Len(events)].day = idx
    /\ \A i \in Queries :
          i < Len(events) =>
             /\ events[i + 1].ev \in {"empty", "written"}
             /\ events[i + 1].day = events[i].day
             /\ IF i + 1 < Len(events)
                THEN /\ events[i + 2].ev = "sleep"
                     /\ events[i + 2].day = events[i].day
                     /\ events[i + 2].millis = throttle_millis(throttle)
                     /\ events[i + 2].millis >= 1
                ELSE pc = "sleep" /\ timer = throttle_millis(throttle)

\* two days were fetched in one run, the first found empty
C6_Witness ==
    /\ pc = "exit"
    /\ Cardinality(Queries) = 2
    /\ 1 \in DaysOf(events, {"empty"})
    /\ 2 \in DaysOf(events, {"written"})

\* C7: the step at which a fetch or a table build fails ends the run
\* without writing a file or logging anything more, and after it nothing
\* happens but a new invocation of the tool.
C7_ErrorAbortsRun ==
    [][ /\ (error = "none" /\ error' \in {"fetch", "build"}) =>
              /\ pc' = "exit"
              /\ files' = files
              /\ events' = events
        /\ (pc = "exit" /\ error \in {"fetch", "build"}) =>
              /\ run_no' = run_no + 1
              /\ files' = files
      ]_vars

\* the table build of day 1 failed; day 2 was not queried and has no file,
\* though the table holds records for it
C7_Witness ==
    /\ pc = "exit"
    /\ error = "build"
    /\ idx = 1
    /\ Len(days) = 2
    /\ events[Len(events)].ev = "query" /\ events[Len(events)].day = 1
    /\ files[filename_csv(days[2])] = NoFile
    /\ get_items_from_table(table, timestamp_utc(days[2])) # << >>

\* C8 (as claimed): an error at one window is caught and the loop goes on
\* with the next one: the run has not ended while a later window is left.
C8_LoopContinuesAfterError ==
    (error \in WindowErrors /\ idx < Len(days)) => pc # "exit"

\* C8 (amended): an error at window k is not caught in the loop: it ends
\* the run, main reports it, the query of window k is the last thing the
\* run did, and no window after k was touched.
C8_ErrorEndsRun ==
    error \in WindowErrors =>
        /\ pc = "exit"
        /\ Len(events) \in Queries
        /\ events[Len(events)].day = idx
        /\ \A i \in 1..Len(events) : events[i].day <= idx

\* the query of day 1 failed, day 2 was left untouched
C8_Witness ==
    /\ pc = "exit"
    /\ error = "fetch"
    /\ idx = 1
    /\ Len(days) = 2
    /\ DaysOf(events, {"query", "skip", "written", "empty"}) = {1}

QueriedRanges == { events[i].range : i \in Queries }
\* the seconds at and next to the bounds of the planned days
BoundarySeconds ==
    UNION { { days[i].utc + r : r \in {0, 1, SecondsPerDay - 2, SecondsPerDay - 1} } :
            i \in 1..Len(days) }

\* C10: the planned days begin at consecutive JST midnights, each one day
\* after the one before, from the planned start up to the planned end; the
\* query of a day asks for exactly the seconds of that day, so that once all
\* days are queried every second from the first start up to the last end is
\* in the range of exactly one query.
C10_WindowsPartitionRange ==
    pc # "start" =>
        LET r == jst_datetime_range(first_datetime, last_datetime)
        IN  /\ Len(days) >= 1
            /\ days[1] = r.start
            /\ days[Len(days)].utc + SecondsPerDay = r.end.utc
            /\ \A i \in 1..Len(days) :
                  /\ days[i].off = JstOffset
                  /\ naive_local(days[i]) % SecondsPerDay = 0
                  /\ i < Len(days) => days[i].utc + SecondsPerDay = days[i + 1].utc
            /\ \A i \in Queries :
                  /\ events[i].range[1] = days[events[i].day].utc
                  /\ events[i].range[2] + 1 = days[events[i].day].utc + SecondsPerDay
            /\ pc = "exit" =>
                  \A s \in BoundarySeconds :
                     Cardinality({ q \in QueriedRanges : q[1] <= s /\ s <= q[2] }) = 1

\* three days were planned and queried
C10_Witness ==
    /\ pc = "exit"
    /\ Len(days) = 3
    /\ Cardinality(QueriedRanges) = 3
    /\ first_datetime.off # JstOffset

\* the JST midnights around the planner's inputs
JstMidnights ==
    { jst_midnight(d) :
        d \in (date_naive(with_timezone_jst(first_datetime)) - 1)
               ..(date_naive(with_timezone_jst(last_datetime)) + 2) }

\* C11: whatever the UTC offsets of the earliest and the latest timestamp,
\* the planned range starts at the latest JST midnight that is not after the
\* earliest timestamp and ends at the earliest JST midnight that is after
\* the latest one; both timestamps lie in [start, end), and at least one day
\* is planned.
C11_RangeCoversBothEnds ==
    pc # "start" =>
        LET r == jst_datetime_range(first_datetime, last_datetime)
        IN  /\ r.start \in JstMidnights
            /\ r.end \in JstMidnights
            /\ \A m \in JstMidnights :
                  /\ m.utc <= first_datetime.utc => m.utc <= r.start.utc
                  /\ m.utc > last_datetime.utc => m.utc >= r.end.utc
            /\ r.start.utc <= first_datetime.utc
            /\ first_datetime.utc < r.end.utc
            /\ r.start.utc <= last_datetime.utc
            /\ last_datetime.utc < r.end.utc
            /\ Len(days) >= 1
            /\ days[1] = r.start
            /\ days[Len(days)].utc < r.end.utc
            /\ days[Len(days)].utc + SecondsPerDay >= r.end.utc

\* the earliest and the latest timestamp are one instant, a JST midnight
\* written in another offset: one day is planned, and it starts there
C11_Witness ==
    /\ pc = "exit"
    /\ first_datetime = last_datetime
    /\ first_datetime.off # JstOffset
    /\ naive_local(with_timezone_jst(first_datetime)) % SecondsPerDay = 0
    /\ Len(days) = 1
    /\ days[1].utc = first_datetime.utc

\* the file names of the JST days around the planner's inputs
NamesOf(midnights) == { filename_csv(m) : m \in midnights }

\* C12: the name of a day's file is made of the day's local date and of the
\* local times of its begin and its end, 0000 and 2359; two different days,
\* of one plan or of the plans of different runs, never have the same name.
C12_FileNamesDistinct ==
    pc # "start" =>
        /\ \A i, j \in 1..Len(days) :
              filename_csv(days[i]) = filename_csv(days[j]) => i = j
        /\ \A i \in 1..Len(days) :
              /\ \A m \in JstMidnights :
                    filename_csv(m) = filename_csv(days[i]) => m = days[i]
              /\ filename_csv(days[i])[4] = 0
              /\ filename_csv(days[i])[5] = 2359
              /\ filename_csv(days[i]) = filename_csv(with_timezone_jst(days[i]))
        /\ Cardinality(NamesOf(JstMidnights)) = Cardinality(JstMidnights)

\* three days across the end of a year were planned, and their names are
\* those of 2022-12-30, 2022-12-31 and 2023-01-01
C12_Witness ==
    /\ pc = "exit"
    /\ Len(days) = 3
    /\ filename_csv(days[1]) = << 2022, 12, 30, 0, 2359 >>
    /\ filename_csv(days[2]) = << 2022, 12, 31, 0, 2359 >>
    /\ filename_csv(days[3]) = << 2023, 1, 1, 0, 2359 >>

\* C13 as stated: the number in the message of the lap limit is the number
\* of planned days that were not processed because of the limit.
C13_ReportsSkippedDays ==
    \A i \in EventsOf({"limit"}) :
       events[i].reported = (Len(days) - events[i].day) + 1

\* C13, amended: when the lap limit is reached while planned days remain,
\* the run ends there without error, having made max(L, 0) fetches and no
\* query for the remaining days, and the number in its message is the lap
\* limit L itself.
C13_StopsEarlyReportingLimit ==
    \A i \in EventsOf({"limit"}) :
       /\ i = Len(events)
       /\ pc = "exit"
       /\ error = "none"
       /\ events[i].reported = lap_limits
       /\ events[i].day = idx
       /\ idx <= Len(days)
       /\ loop_counter = Max(lap_limits, 0)
       /\ Cardinality(EventsOf({"empty", "written"})) = loop_counter
       /\ \A q \in Queries : events[q].day < idx

\* with limit 0 the run stopped at the first of two planned days: two days
\* were left out and the message says 0
C13_Witness ==
    /\ pc = "exit"
    /\ lap_limits = 0
    /\ Len(days) = 2
    /\ Len(events) >= 1
    /\ events[Len(events)].ev = "limit"
    /\ events[Len(events)].day = 1
    /\ events[Len(events)].reported = 0

\* the table builder has returned and its table was saved as the day's file
JustWritten ==
    /\ pc = "sleep"
    /\ Len(events) >= 1
    /\ events[Len(events)].ev = "written"
    /\ is_file(outfilepath)
WrittenTable == files[outfilepath].df
\* the records of the batch that have no attribute of the given name
Lacking(name) == { i \in 1..Len(items) : name \notin DOMAIN items[i] }
ColumnsInSchemaOrder(df) ==
    /\ Len(df) = Len(PAIR)
    /\ \A k \in 1..Len(PAIR) : df[k].name = PAIR[k][1]

\* C14 as stated: the table built from a batch has the seven schema columns
\* in schema order, and as many rows as the batch has records with a
\* measured_at attribute.
C14_RowsOfDatedRecords ==
    JustWritten =>
        /\ ColumnsInSchemaOrder(WrittenTable)
        /\ height(WrittenTable) = Len(items) - Cardinality(Lacking("measured_at"))

\* C14, amended: the table built from a batch has the seven schema columns
\* in schema order and one row for every record of the batch, in the order
\* of the batch, whether the record has a measured_at attribute or not.
C14_OneRowPerRecord ==
    JustWritten =>
        /\ ColumnsInSchemaOrder(WrittenTable)
        /\ height(WrittenTable) = Len(items)
        /\ \A k \in 1..Len(PAIR) :
              /\ Len(WrittenTable[k].values) = Len(items)
              /\ k > 1 =>
                    \A i \in 1..Len(items) :
                       WrittenTable[k].values[i] =
                          cast(get_attribute_values_str(items[i], PAIR[k][1]).val, PAIR[k][2])

\* a batch of four records, one of them without measured_at, was saved as a
\* table of four rows
C14_Witness ==
    /\ JustWritten
    /\ Len(items) = 4
    /\ Cardinality(Lacking("measured_at")) = 1
    /\ height(WrittenTable) = 4

\* the records of the batch whose measured_at is a text that is no RFC 3339
\* timestamp
Unparsable ==
    { i \in 1..Len(items) :
        /\ "measured_at" \in DOMAIN items[i]
        /\ items[i].measured_at.text.kind # "ts" }

\* C15 as stated: in every table the builder produces, measured_at is
\* non-null in every row.
C15_MeasuredAtNeverNull ==
    JustWritten =>
        \A i \in 1..height(WrittenTable) : WrittenTable[1].values[i] # Null

\* C15, amended: in every table the builder produces, the measured_at of a
\* row is null exactly when the record's measured_at is absent or cannot be
\* parsed, and is a timestamp otherwise; a record whose timestamp cannot be
\* parsed gets a warning and is kept as a row, with its other columns.
C15_NullWhereUnparsable ==
    JustWritten =>
        /\ height(WrittenTable) = Len(items)
        /\ \A i \in 1..Len(items) :
              /\ WrittenTable[1].values[i] = Null
                    <=> i \in (Lacking("measured_at") \cup Unparsable)
              /\ WrittenTable[1].values[i] # Null
                    => WrittenTable[1].values[i].kind = "ts"
              /\ WrittenTable[2].values[i] =
                    get_attribute_values_str(items[i], "sensor_id").val
        /\ events[Len(events)].warnings = Cardinality(Unparsable)

\* a record whose measured_at is the text "yesterday" was saved as a row
\* with a null measured_at and the sensor id of the record, with a warning
C15_Witness ==
    /\ JustWritten
    /\ \E i \in Unparsable :
          /\ items[i].measured_at.text = Text("yesterday")
          /\ WrittenTable[1].values[i] = Null
          /\ WrittenTable[2].values[i] = Text("smartmeter")
    /\ events[Len(events)].warnings >= 1

\* the attributes of the batch that are neither of type S nor of type N
OtherTags ==
    { << i, c >> \in (1..Len(items)) \X ColumnNames :
        c \in DOMAIN items[i] /\ items[i][c].tag \notin {"S", "N"} }

\* C16: for every record of a batch and every schema column, the normalizer
\* yields the text of an attribute of type S or N, yields null without error
\* for a missing attribute, and yields an error for an attribute of any
\* other type; one such error in any record makes the build of the whole
\* table fail, and no table is saved.
C16_NormalizerByTag ==
    /\ (pc = "fetching" \/ JustWritten \/ error = "build") =>
          \A i \in 1..Len(items) : \A c \in ColumnNames :
             LET x == get_attribute_values_str(items[i], c)
             IN  /\ c \notin DOMAIN items[i] => x.ok /\ x.val = Null
                 /\ (c \in DOMAIN items[i] /\ items[i][c].tag \in {"S", "N"}) =>
                       x.ok /\ x.val = items[i][c].text
                 /\ << i, c >> \in OtherTags => ~x.ok
    /\ pc = "fetching" =>
          (time_sequential_dataframe(items).ok <=> OtherTags = {})
    /\ JustWritten =>
          /\ OtherTags = {}
          /\ \A i \in 1..Len(items) :
                WrittenTable[2].values[i] =
                   IF "sensor_id" \in DOMAIN items[i]
                   THEN items[i].sensor_id.text ELSE Null
    /\ error = "build" =>
          /\ pc = "exit"
          /\ OtherTags # {}
          /\ ~is_file(outfilepath)
          /\ EventsOf({"written"}) = {}

\* the build failed on a batch of four records, three of them well-formed
\* and one with a message_id of type BOOL
C16_Witness ==
    /\ pc = "exit"
    /\ error = "build"
    /\ Len(items) = 4
    /\ OtherTags = { << 2, "message_id" >> }
    /\ items[3] = FirstData

\* the instant a is not after the instant b
NotAfter(a, b) == a.utc < b.utc \/ (a.utc = b.utc /\ a.ns <= b.ns)
\* the instant b is less than 60 s after the instant a
WithinMinute(a, b) ==
    (b.utc - a.utc) < 60 \/ ((b.utc - a.utc) = 60 /\ b.ns < a.ns)

\* C17: the measured_at stored for a timestamp that parses is the same
\* instant floored to the minute and written in +09:00: its seconds and
\* nanoseconds are zero, it is not after the original and less than 60 s
\* before it, and truncating it again changes nothing.
C17_FlooredToMinuteJst ==
    JustWritten =>
        \A i \in (1..Len(items)) \ (Lacking("measured_at") \cup Unparsable) :
           LET orig   == items[i].measured_at.text
               stored == WrittenTable[1].values[i]
           IN  /\ stored.kind = "ts"
               /\ stored.off = JstOffset
               /\ stored.ns = 0
               /\ (stored.utc + stored.off) % 60 = 0
               /\ stored.utc % 60 = 0
               /\ NotAfter(stored, orig)
               /\ WithinMinute(stored, orig)
               /\ measured_at_iso8601(stored) = stored
               /\ truncate_to_minute(DateTime(stored.utc, stored.ns, stored.off))
                     = DateTime(stored.utc, stored.ns, stored.off)

\* a timestamp 59.999999999 s into a minute, written in -05:00, was stored
\* as the start of that minute in +09:00
C17_Witness ==
    /\ JustWritten
    /\ \E i \in 1..Len(items) :
          /\ "measured_at" \in DOMAIN items[i]
          /\ items[i].measured_at.text = Stamp(TableStart + 119, 999999999, 0 - 18000)
          /\ WrittenTable[1].values[i] = Stamp(TableStart + 60, 0, JstOffset)

\* the chart tool holds the sorted table of the file it is charting
TableLoaded == cpc \in {"one", "two", "three", "present"}
\* the positions, in order, of the rows of the table whose measured_at and
\* whose value in column c are both present
KeptRows(c) ==
    SelectSeq([i \in 1..Len(cdf) |-> i],
              LAMBDA i : cdf[i][MEASURED_AT] # Null /\ cdf[i][c] # Null)
\* the series s holds exactly those rows, as pairs of measured_at and value
IsSeriesOf(s, c) ==
    /\ Len(s) = Len(KeptRows(c))
    /\ \A k \in 1..Len(s) :
          /\ DOMAIN s[k] = {MEASURED_AT, c}
          /\ s[k][MEASURED_AT] = cdf[KeptRows(c)[k]][MEASURED_AT]
          /\ s[k][c] = cdf[KeptRows(c)[k]][c]

\* C18: each single-value series (cumulative energy, power, R current, T
\* current) holds exactly the rows of the table in which measured_at and the
\* projected column are non-null, whatever the other columns hold; the
\* panel of cumulative energy draws one rectangle for each of them.
C18_SeriesOfNonNullRows ==
    TableLoaded =>
        /\ IsSeriesOf(get_cumlative_kwh(cdf), CUMLATIVE_KWH)
        /\ IsSeriesOf(get_instant_watt(cdf), INSTANT_WATT)
        /\ IsSeriesOf(get_instant_ampere_r(cdf), INSTANT_AMPERE_R)
        /\ IsSeriesOf(get_instant_ampere_t(cdf), INSTANT_AMPERE_T)
        /\ Len(canvas) >= 1 =>
              /\ Len(canvas[1].rects) = Len(KeptRows(CUMLATIVE_KWH))
              /\ \A k \in 1..Len(canvas[1].rects) :
                    canvas[1].rects[k].y1 = cdf[KeptRows(CUMLATIVE_KWH)[k]][CUMLATIVE_KWH].v

\* of two rows with a timestamp and all other values, the one without
\* cumlative_kwh is left out of the series of cumulative energy and is in
\* the series of power
C18_Witness ==
    /\ cpc = "two"
    /\ Len(cdf) = 2
    /\ \A i \in 1..2 : \A c \in {MEASURED_AT, INSTANT_WATT, INSTANT_AMPERE_R, INSTANT_AMPERE_T} :
          cdf[i][c] # Null
    /\ cdf[1][CUMLATIVE_KWH] = Null
    /\ cdf[2][CUMLATIVE_KWH] # Null
    /\ Len(get_cumlative_kwh(cdf)) = 1
    /\ Len(get_instant_watt(cdf)) = 2
    /\ Len(canvas[1].rects) = 1

\* the sorted table of a csv file (one of its arrangements, when rows have
\* equal timestamps) and its series of currents
SortedTableOf(f) == CHOOSE d \in sort(read_csv(files[f])) : TRUE
CurrentSeriesOf(f) == get_instant_ampere(SortedTableOf(f))
\* the positions of the rectangles of a label in a panel
RectsOf(panel, label) ==
    { j \in 1..Len(panel.rects) : panel.rects[j].label = label }

\* C19: when the T phase value is null in a row of the series of currents,
\* and the panels before it can be drawn, the panel of currents is drawn all
\* the same: the chart is made, it has one R phase rectangle from 0 to the
\* R value for every row of the series, and T phase rectangles for the rows
\* with a T value only.
C19_CurrentPanelWithoutT ==
    \A k \in 1..Len(results) :
       LET f == results[k].file
           d == SortedTableOf(f)
           s == CurrentSeriesOf(f)
       IN  (/\ results[k].err # "exists"
            /\ \E i \in 1..Len(s) : s[i][INSTANT_AMPERE_T] = Null
            /\ plot_cumlative_kilo_watt_hour(get_cumlative_kwh(d)).ok
            /\ plot_instant_watt(get_instant_watt(d)).ok)
           => /\ results[k].ok
              /\ charts[f] # NoFile
              /\ Len(charts[f].panels) = 3
              /\ Cardinality(RectsOf(charts[f].panels[3], INSTANT_AMPERE_R)) = Len(s)
              /\ \A j \in RectsOf(charts[f].panels[3], INSTANT_AMPERE_R) :
                    /\ charts[f].panels[3].rects[j].y0 = 0
                    /\ \E i \in 1..Len(s) :
                          charts[f].panels[3].rects[j].y1 = s[i][INSTANT_AMPERE_R].v
              /\ Cardinality(RectsOf(charts[f].panels[3], INSTANT_AMPERE_T))
                    = Cardinality({ i \in 1..Len(s) : s[i][INSTANT_AMPERE_T] # Null })

\* the series the k-th panel of the drawing area was drawn from
SeriesOfPanel(k) ==
    CASE k = 1 -> get_cumlative_kwh(cdf)
      [] k = 2 -> get_instant_watt(cdf)
      [] OTHER -> get_instant_ampere(cdf)
\* the timestamps of a series as local times of the display time zone
LocalTimes(s) == { s[i][MEASURED_AT].utc + JstOffset : i \in 1..Len(s) }

\* C20: the datetime axis of a panel drawn from a non-empty series goes
\* from the local midnight that begins the day of the earliest timestamp to
\* the local midnight that ends the day of the latest one, in the display
\* time zone (+09:00); every point of the series is inside it, and it spans
\* a whole number of days, at least one.
C20_AxisSpansWholeDays ==
    TableLoaded =>
        \A k \in 1..Len(canvas) :
           LET ts == LocalTimes(SeriesOfPanel(k))
               r  == canvas[k].x_range
           IN  /\ ts # {}
               /\ r[1] % SecondsPerDay = 0
               /\ r[2] % SecondsPerDay = 0
               /\ \A t \in ts : r[1] <= t /\ t < r[2]
               /\ \E t \in ts : t < r[1] + SecondsPerDay
               /\ \E t \in ts : t >= r[2] - SecondsPerDay
               /\ r[2] - r[1] >= SecondsPerDay
               /\ (r[2] - r[1]) % SecondsPerDay = 0
               /\ \A j \in 1..Len(canvas[k].rects) : canvas[k].rects[j].x0 \in ts

\* the series of power holds 23:59 of day 0 and 00:00 of day 1: the axis of
\* its panel goes from the midnight before day 0 to the midnight after day 1
C20_Witness ==
    /\ cpc = "three"
    /\ LocalTimes(get_instant_watt(cdf)) = { SecondsPerDay - 60, SecondsPerDay }
    /\ canvas[2].x_range = << 0, 2 * SecondsPerDay >>

\* the values the k-th panel of the drawing area shows: the energy, the
\* power, or the sum of the two currents of each row of its series
ValuesOfPanel(k) ==
    LET s == SeriesOfPanel(k)
    IN  CASE k = 1 -> { s[i][CUMLATIVE_KWH].v : i \in 1..Len(s) }
          [] k = 2 -> { s[i][INSTANT_WATT].v : i \in 1..Len(s) }
          [] OTHER -> { s[i][INSTANT_AMPERE_R].v + s[i][INSTANT_AMPERE_T].v :
                          i \in 1..Len(s) }
Least(vs) == CHOOSE v \in vs : \A w \in vs : v <= w
Greatest(vs) == CHOOSE v \in vs : \A w \in vs : v >= w
\* the value axis of the k-th panel is [min(min(values), 0), max(values)]
\* for power and current and [min(values), max(values)] for energy
ValueAxisAsComputed(k) ==
    LET vs == ValuesOfPanel(k)
        r  == canvas[k].y_range
    IN  /\ vs # {}
        /\ r[2] = Greatest(vs)
        /\ k = 1 => r[1] = Least(vs)
        /\ k > 1 => r[1] = (IF Least(vs) < 0 THEN Least(vs) ELSE 0)

\* C21 as stated: the value axis of the power and of the current panel is
\* [min(min(values), 0), max(values)], so that zero always lies inside it;
\* the axis of the energy panel is [min(values), max(values)].
C21_ZeroAlwaysInside ==
    TableLoaded =>
        \A k \in 1..Len(canvas) :
           /\ ValueAxisAsComputed(k)
           /\ k > 1 => (canvas[k].y_range[1] <= 0 /\ 0 <= canvas[k].y_range[2])

\* C21, amended: the axes are as computed above; zero is never below the
\* axis of the power or of the current panel, and it lies inside the axis
\* exactly when the greatest value is not negative.
C21_ValueAxis ==
    TableLoaded =>
        \A k \in 1..Len(canvas) :
           /\ ValueAxisAsComputed(k)
           /\ k > 1 =>
                 /\ canvas[k].y_range[1] <= 0
                 /\ (0 <= canvas[k].y_range[2]) <=> (Greatest(ValuesOfPanel(k)) >= 0)

\* all three panels are drawn from positive values: the axes of power and
\* current start at 0, below their least value, the axis of energy starts
\* at its least value
C21_Witness ==
    /\ cpc = "present"
    /\ Least(ValuesOfPanel(1)) > 0
    /\ Least(ValuesOfPanel(2)) > 0
    /\ Least(ValuesOfPanel(3)) > 0
    /\ canvas[1].y_range[1] = Least(ValuesOfPanel(1))
    /\ canvas[2].y_range = << 0, Greatest(ValuesOfPanel(2)) >>
    /\ canvas[3].y_range = << 0, Greatest(ValuesOfPanel(3)) >>

\* C22: the drawing area is saved as the chart file only after the three
\* panels, energy, power and current, were all drawn: a chart file made by
\* this invocation has its three panels, and a file whose panel failed,
\* with NoData or any other error, has no chart made from the panels before.
C22_SavedOnlyWithThreePanels ==
    /\ \A f \in DOMAIN charts :
          charts[f] \notin {NoFile, OldChart} =>
             /\ Len(charts[f].panels) = 3
             /\ charts[f].panels[1].name = CUMLATIVE_KWH
             /\ charts[f].panels[2].name = INSTANT_WATT
             /\ charts[f].panels[3].name = "instant_ampere"
    /\ \A k \in 1..Len(results) :
          ~results[k].ok => charts[results[k].file] \in {NoFile, OldChart}

\* C23: the chart tool attempts every csv file of the directory exactly
\* once, in the order they were listed; the result printed for a file, a
\* failure (chart exists, read error, panel error) or a success, is that of
\* the file alone, whatever happened to the files before it, and a failure
\* changes no chart file but that of its own csv file.
C23_EveryFileAttemptedOnce ==
    /\ cpc # "start" =>
          /\ Len(csv_files) = Cardinality(DOMAIN files)
          /\ { csv_files[k] : k \in 1..Len(csv_files) } = DOMAIN files
          /\ Len(results) = cidx - 1
          /\ \A k \in 1..Len(results) :
                /\ results[k].file = csv_files[k]
                /\ results[k].ok <=> (results[k].err = "none")
                /\ results[k].ok =>
                      /\ files[results[k].file] = GoodCsv
                      /\ Len(charts[results[k].file].panels) = 3
                /\ files[results[k].file] = GoodCsv =>
                      results[k].err \in {"none", "exists"}
                /\ results[k].err = "exists" <=>
                      (charts[results[k].file] = OldChart /\ ~coverwrite)
                /\ (results[k].err = "read") => files[results[k].file] = OtherCsv
                /\ (results[k].err = "NoData") =>
                      files[results[k].file] \in {NoKwhCsv, NoWattCsv}
                /\ (results[k].err = "ComputeError") => files[results[k].file] = NoTCsv
          /\ \A k \in (Len(results) + 1)..Len(csv_files) :
                charts[csv_files[k]] \in {NoFile, OldChart}
    /\ cpc = "end" => Len(results) = Len(csv_files)

\* of two csv files the first one failed with NoData in its first panel and
\* the second one was charted
C23_Witness ==
    /\ cpc = "end"
    /\ Len(csv_files) = 2
    /\ results[1].err = "NoData"
    /\ results[2].ok
    /\ Len(charts[csv_files[2]].panels) = 3

\* the fetches of this run that have returned
Laps == EventsOf({"empty", "written"})
\* the planned days this run may not pass over: all of them with
\* --overwrite, else those without a file when the run began (a file found
\* now at a day that was not passed over is one this run wrote)
NotSkipped ==
    { i \in 1..Len(days) :
        overwrite \/ ~is_file(filename_csv(days[i]))
                  \/ i \in DaysOf(events, {"written"}) }
Min(a, b) == IF a < b THEN a ELSE b

\* C24 as stated, first clause: at every point of a run the lap counter
\* equals the number of range queries sent so far in this run.
C24_CounterEqualsQueriesIssued ==
    loop_counter = Cardinality(Queries)

\* C24, amended: the lap counter equals the number of fetches that have
\* returned, which is one less than the number of queries sent while a query
\* is in flight and after a run that ended in an error of its window; a day
\* passed over leaves the counter alone and is not slept on (a sleep only
\* follows a fetch that returned, empty or not, and every such fetch is
\* followed by the sleep of the throttle); a run that ends without error
\* has sent min(max(L, 0), days not passed over) queries.
C24_LapAccounting ==
    /\ loop_counter = Cardinality(Laps)
    /\ Cardinality(Queries) =
          loop_counter + (IF pc = "fetching" \/ error \in WindowErrors THEN 1 ELSE 0)
    /\ \A i \in EventsOf({"skip"}) :
          /\ Cardinality(LapsBefore(i)) = Cardinality(LapsBefore(i + 1))
          /\ i < Len(events) => events[i + 1].ev # "sleep"
          /\ i = Len(events) => pc \in {"loop", "exit"} /\ timer = 0
    /\ \A i \in EventsOf({"sleep"}) :
          /\ i > 1
          /\ events[i - 1].ev \in {"empty", "written"}
          /\ events[i - 1].day = events[i].day
          /\ events[i].millis = throttle_millis(throttle)
    /\ \A i \in Laps :
          /\ i < Len(events) => events[i + 1].ev = "sleep"
          /\ i = Len(events) => pc = "sleep" /\ timer = throttle_millis(throttle)
    /\ (pc = "exit" /\ error = "none") =>
          Cardinality(Queries) = Min(Max(lap_limits, 0), Cardinality(NotSkipped))

\* a run of two days with limit 10 has passed over the first day, whose
\* file exists, has found the second day empty, has slept and has ended
C24_Witness ==
    /\ pc = "exit"
    /\ error = "none"
    /\ lap_limits = 10
    /\ ~overwrite
    /\ Len(events) = 4
    /\ events[1].ev = "skip"
    /\ events[2].ev = "query"
    /\ events[3].ev = "empty"
    /\ events[4].ev = "sleep"
    /\ loop_counter = 1
    /\ Cardinality(NotSkipped) = 1

\* the planned days for which the table holds records
NonEmptyDays ==
    { i \in 1..Len(days) : get_items_from_table(table, timestamp_utc(days[i])) # << >> }
\* every planned day with records has its file
AllProduced == \A i \in NonEmptyDays : is_file(filename_csv(days[i]))
\* a run without --overwrite and with a limit of at least 1 has ended
\* without error and has left the directory as it found it
Stalled ==
    /\ pc = "exit"
    /\ error = "none"
    /\ ~overwrite
    /\ lap_limits >= 1
    /\ prev.ran
    /\ prev.files = files

\* C25: repeating the run (no --overwrite, L >= 1, the table unchanged, no
\* errors) finitely often produces the file of every planned day that has
\* records.  A run is determined by its arguments, the table and the
\* directory, so a run that ends with the directory as it found it is
\* repeated step for step by every later run: when a run has ended so, every
\* planned day with records has its file already.
C25_RerunsProduceEveryFile ==
    Stalled => AllProduced

\* C26: the series of currents has one row for each row of the table whose
\* measured_at and R phase value are present, in the order of the table and
\* with its timestamp and R phase value, also when rows of the table have
\* the same measured_at: the left join drops no R phase row and repeats none.
C26_OneRowPerRPhaseRow ==
    TableLoaded =>
        LET s == get_instant_ampere(cdf)
            kept == KeptRows(INSTANT_AMPERE_R)
        IN  /\ Len(s) = Len(kept)
            /\ \A k \in 1..Len(s) :
                  /\ k <= Len(kept)
                  /\ s[k][MEASURED_AT] = cdf[kept[k]][MEASURED_AT]
                  /\ s[k][INSTANT_AMPERE_R] = cdf[kept[k]][INSTANT_AMPERE_R]

=============================================================================
